---- MODULE Spec2Model ----
(***************************************************************************)
(* TADA - The Automatic DBMS Assignment solver.                            *)
(*                                                                         *)
(* Two state machines are modelled:                                        *)
(*   SpecRetry : one invocation of ai_solver._call_with_retry, the         *)
(*               credential x model fallback cascade;                      *)
(*   Spec      : one invocation of automatic_ass.process_exercise, the     *)
(*               orchestrator (connect, parse, generate, execute, export). *)
(* Strings whose content the code inspects are sequences of one-character  *)
(* strings, so that substring tests and case folding are computed.         *)
(***************************************************************************)
EXTENDS Integers, Sequences, FiniteSets, TLC

(***************************************************************************)
(* Bounds of the model.                                                    *)
(***************************************************************************)
\* longest credential list drawn for _get_api_keys
MaxKeys == 2
\* largest value drawn for the parameter max_retries_per_model
MaxRetries == 2
\* longest list of generated items returned by one AI generation step
MaxItems == 2

(***************************************************************************)
(* Program constants.                                                      *)
(***************************************************************************)
\* wait = 5 * (attempt + 1)
BackoffUnit == 5
\* the default of max_retries_per_model, the value every caller runs with
DefaultMaxRetries == 2

\* ai_solver.FALLBACK_MODELS, in preference order
FALLBACK_MODELS ==
    << "gemini-2.0-flash",
       "gemini-2.0-flash-lite",
       "gemini-2.5-flash",
       "gemini-2.5-flash-lite",
       "gemini-2.5-pro",
       "gemini-3-flash-preview",
       "gemini-2.5-flash-preview-09-2025",
       "gemini-2.5-flash-lite-preview-09-2025" >>

NumModels == Len(FALLBACK_MODELS)

(***************************************************************************)
(* Strings as character sequences.                                         *)
(***************************************************************************)
UpperChars ==
    << "A","B","C","D","E","F","G","H","I","J","K","L","M",
       "N","O","P","Q","R","S","T","U","V","W","X","Y","Z" >>

LowerChars ==
    << "a","b","c","d","e","f","g","h","i","j","k","l","m",
       "n","o","p","q","r","s","t","u","v","w","x","y","z" >>

\* str.lower() on one character
LowerChar(c) ==
    IF \E i \in 1..Len(UpperChars) : UpperChars[i] = c
    THEN LowerChars[CHOOSE i \in 1..Len(UpperChars) : UpperChars[i] = c]
    ELSE c

\* str.lower()
Lower(s) == [i \in 1..Len(s) |-> LowerChar(s[i])]

\* str.upper() on one character
UpperChar(c) ==
    IF \E i \in 1..Len(LowerChars) : LowerChars[i] = c
    THEN UpperChars[CHOOSE i \in 1..Len(LowerChars) : LowerChars[i] = c]
    ELSE c

\* str.upper()
Upper(s) == [i \in 1..Len(s) |-> UpperChar(s[i])]

\* the Python test  sub in s
Contains(s, sub) ==
    \E i \in 1..(Len(s) - Len(sub) + 1) : SubSeq(s, i, i + Len(sub) - 1) = sub

\* str.startswith
StartsWith(s, pre) ==
    /\ Len(s) >= Len(pre)
    /\ SubSeq(s, 1, Len(pre)) = pre

\* str.strip() on a character sequence
RECURSIVE LStrip(_)
LStrip(s) ==
    IF Len(s) > 0 /\ s[1] \in { " ", "\n", "\t" } THEN LStrip(Tail(s)) ELSE s

RECURSIVE RStrip(_)
RStrip(s) ==
    IF Len(s) > 0 /\ s[Len(s)] \in { " ", "\n", "\t" }
    THEN RStrip(SubSeq(s, 1, Len(s) - 1))
    ELSE s

Strip(s) == RStrip(LStrip(s))

(***************************************************************************)
(* AI responses.  A response text is a sequence of lexemes: a code fence,  *)
(* a language tag, white space, brackets, commas, prose, and JSON objects  *)
(* (one lexeme each).                                                      *)
(***************************************************************************)
\* the three-backtick code fence
Fence == "<fence>"
LangTag == "json"
Newline == "\n"
Space == " "
Prose == "Here is the SQL:"
\* a JSON string
Scalar == "\"text\""
\* characters that are neither word characters, white space nor JSON
Punct == "++"
\* a run of "[" longer than the recursion limit the JSON decoder runs under
DeepOpen == "<deep [>"

WhiteTokens == { Newline, Space }

\* the "sql" values the model writes (lowercase, as the prompt demands)
SqlCreate == << "c","r","e","a","t","e" >>
SqlBegin == << "b","e","g","i","n" >>
SqlSelect == << " ","s","e","l","e","c","t" >>
SqlUpdate == << "u","p","d","a","t","e" >>

\* a key that a dict does not hold
Absent == << "<absent>" >>

\* JSON object lexemes and the dicts json.loads makes of them
ObjCreate == "{q:1, sql:create}"
ObjBegin == "{q:2, sql:begin}"
ObjSelect == "{q:3, sql: select}"
ObjUpdate == "{q:4, sql:update}"
ObjNoSql == "{q:5}"

ObjTokens == { ObjCreate, ObjBegin, ObjSelect, ObjUpdate, ObjNoSql }

ObjectOf(tok) ==
    CASE tok = ObjCreate -> [q |-> "1", sql |-> SqlCreate, result |-> Absent]
      [] tok = ObjBegin -> [q |-> "2", sql |-> SqlBegin, result |-> Absent]
      [] tok = ObjSelect -> [q |-> "3", sql |-> SqlSelect, result |-> Absent]
      [] tok = ObjUpdate -> [q |-> "4", sql |-> SqlUpdate, result |-> Absent]
      [] OTHER -> [q |-> "5", sql |-> Absent, result |-> Absent]

\* str.strip() on a lexeme sequence
RECURSIVE LStripTokens(_)
LStripTokens(t) ==
    IF Len(t) > 0 /\ t[1] \in WhiteTokens THEN LStripTokens(Tail(t)) ELSE t

RECURSIVE RStripTokens(_)
RStripTokens(t) ==
    IF Len(t) > 0 /\ t[Len(t)] \in WhiteTokens
    THEN RStripTokens(SubSeq(t, 1, Len(t) - 1))
    ELSE t

StripTokens(t) == RStripTokens(LStripTokens(t))

\* lexemes made of word characters only
WordTokens == { LangTag }

\* the first position from i on that holds no word lexeme
RECURSIVE SkipWord(_, _)
SkipWord(t, i) == IF i <= Len(t) /\ t[i] \in WordTokens THEN SkipWord(t, i + 1) ELSE i

\* the pattern takes the rest of the first line with the fence
RECURSIVE DropLine(_)
DropLine(t) ==
    IF Len(t) = 0 THEN t
    ELSE IF t[1] = Newline THEN Tail(t)
    ELSE DropLine(Tail(t))

RemoveOpeningFenceMutWholeLine(t) ==
    IF Len(t) > 0 /\ t[1] = Fence THEN DropLine(Tail(t)) ELSE t

\* re.sub removing the opening fence, the word characters after it (the
\* language tag) and one newline; of Prose only leading word characters
\* would go, and what is left of it is prose still
RemoveOpeningFence(t) ==
    IF Len(t) > 0 /\ t[1] = Fence
    THEN LET a == SkipWord(t, 2) - 1
             b == IF Len(t) > a /\ t[a + 1] = Newline THEN a + 1 ELSE a
         IN SubSeq(t, b + 1, Len(t))
    ELSE t

\* re.sub removing one newline and the closing fence at the end of the text
RemoveClosingFence(t) ==
    IF Len(t) > 0 /\ t[Len(t)] = Fence
    THEN IF Len(t) > 1 /\ t[Len(t) - 1] = Newline
         THEN SubSeq(t, 1, Len(t) - 2)
         ELSE SubSeq(t, 1, Len(t) - 1)
    ELSE t

\* the Python value of a JSON lexeme that is no array
AtomTokens == ObjTokens \cup { Scalar }

JsonValueOf(tok) == IF tok = Scalar THEN [scalar |-> Scalar] ELSE ObjectOf(tok)

\* json.loads raises JSONDecodeError
ParseFail ==
    [ok |-> FALSE, next |-> 0, isList |-> FALSE, value |-> << >>,
     error |-> "JSONDecodeError"]

\* the decoder descends into one array too many: RecursionError
ParseTooDeep ==
    [ok |-> FALSE, next |-> 0, isList |-> FALSE, value |-> << >>,
     error |-> "RecursionError"]

\* the JSON decoder on white-space-free lexemes: the value that starts at
\* w[i] and the position after it; an array inside an array is the record
\* [items |-> its elements]
RECURSIVE ParseValue(_, _)
RECURSIVE ParseItems(_, _, _)
ParseValue(w, i) ==
    IF i > Len(w) THEN ParseFail
    ELSE IF w[i] \in AtomTokens
    THEN [ok |-> TRUE, next |-> i + 1, isList |-> FALSE, value |-> JsonValueOf(w[i]),
          error |-> "none"]
    ELSE IF w[i] = DeepOpen THEN ParseTooDeep
    ELSE IF w[i] = "["
    THEN IF i < Len(w) /\ w[i + 1] = "]"
         THEN [ok |-> TRUE, next |-> i + 2, isList |-> TRUE, value |-> << >>,
               error |-> "none"]
         ELSE ParseItems(w, i + 1, << >>)
    ELSE ParseFail

ParseItems(w, i, acc) ==
    LET v == ParseValue(w, i)
        acc2 == Append(acc, IF v.isList THEN [items |-> v.value] ELSE v.value)
    IN  IF ~v.ok THEN v
        ELSE IF v.next > Len(w) THEN ParseFail
        ELSE IF w[v.next] = "," THEN ParseItems(w, v.next + 1, acc2)
        ELSE IF w[v.next] = "]"
        THEN [ok |-> TRUE, next |-> v.next + 1, isList |-> TRUE, value |-> acc2,
              error |-> "none"]
        ELSE ParseFail

\* json.loads on a lexeme sequence, followed by the isinstance(result, list)
\* test: white space between lexemes is skipped; ok is FALSE where
\* json.loads raises, and error is what it raises; value is the list itself,
\* or the one-element list of a value that is no list
JsonLoads(t) ==
    LET w == SelectSeq(t, LAMBDA x : x \notin WhiteTokens)
        r == ParseValue(w, 1)
    IN IF r.ok /\ r.next = Len(w) + 1
       THEN [ok |-> TRUE, isList |-> r.isList,
             value |-> IF r.isList THEN r.value ELSE << r.value >>, error |-> "none"]
       ELSE [ok |-> FALSE, isList |-> FALSE, value |-> << >>,
             error |-> IF r.ok THEN "JSONDecodeError" ELSE r.error]

\* the lexemes that hold a "["
OpenTokens == { "[", DeepOpen }

\* a lazy pattern: from the first "[" to the first "]" after it
SearchBracketedMutLazy(t) ==
    LET opens == { i \in 1..Len(t) : t[i] \in OpenTokens }
        first == CHOOSE i \in opens : \A j \in opens : i <= j
        closes == { i \in 1..Len(t) : t[i] = "]" /\ i > first }
        next == CHOOSE i \in closes : \A j \in closes : i <= j
    IN IF opens = {} THEN [found |-> FALSE, group |-> << >>]
       ELSE IF closes = {} THEN [found |-> FALSE, group |-> << >>]
       ELSE [found |-> TRUE, group |-> SubSeq(t, first, next)]

\* re.search(r'\[.*\]', text, re.DOTALL): from the first "[" to the last "]"
SearchBracketed(t) ==
    LET opens == { i \in 1..Len(t) : t[i] \in OpenTokens }
        first == CHOOSE i \in opens : \A j \in opens : i <= j
        closes == { i \in 1..Len(t) : t[i] = "]" /\ i > first }
        last == CHOOSE i \in closes : \A j \in closes : j <= i
    IN IF opens = {} THEN [found |-> FALSE, group |-> << >>]
       ELSE IF closes = {} THEN [found |-> FALSE, group |-> << >>]
       ELSE [found |-> TRUE, group |-> SubSeq(t, first, last)]

\* the text json.loads is given: stripped, fences removed, stripped again
Unfenced(text) ==
    LET t0 == StripTokens(text)
        t1 == IF Len(t0) > 0 /\ t0[1] = Fence
              THEN RemoveClosingFence(RemoveOpeningFence(t0))
              ELSE t0
    IN StripTokens(t1)

\* the except branch: the bracketed part is searched and parsed; a
\* JSONDecodeError of this second parse is passed over, and nothing else is
\* caught
Fallback(t) ==
    LET m == SearchBracketed(t)
        r2 == JsonLoads(m.group)
    IN IF m.found /\ r2.ok THEN [raised |-> "none", value |-> r2.value]
       ELSE IF m.found /\ r2.error # "JSONDecodeError"
       THEN [raised |-> r2.error, value |-> << >>]
       ELSE [raised |-> "none", value |-> << >>]

\* _parse_json_response: whether it raised, and the list it returned; only
\* JSONDecodeError is caught
ParseOutcome(text) ==
    LET r == JsonLoads(Unfenced(text))
    IN IF r.ok THEN [raised |-> "none", value |-> r.value]
       ELSE IF r.error # "JSONDecodeError" THEN [raised |-> r.error, value |-> << >>]
       ELSE Fallback(Unfenced(text))

\* _parse_json_response
ParseJsonResponse(text) == ParseOutcome(text).value

(***************************************************************************)
(* Error texts the external AI call may raise: str(e).                     *)
(***************************************************************************)
Err429 == << "4","2","9"," ","l","i","m","i","t" >>
ErrQuota == << "Q","u","o","t","a" >>
ErrResourceExhausted ==
    << "R","e","s","o","u","r","c","e","E","x","h","a","u","s","t","e","d" >>
\* contains "rate" as a substring of "generate"
ErrGenerate == << "g","e","n","e","r","a","t","e" >>
ErrAuth == << "4","0","1" >>

ErrorTexts == { Err429, ErrQuota, ErrResourceExhausted, ErrGenerate, ErrAuth }

\* is_rate_limit of _call_with_retry
IsRateLimit(error_str) ==
    \/ Contains(error_str, << "4","2","9" >>)
    \/ Contains(Lower(error_str), << "q","u","o","t","a" >>)
    \/ Contains(Lower(error_str), << "r","a","t","e" >>)
    \/ Contains(error_str, ErrResourceExhausted)

(***************************************************************************)
(* State.                                                                  *)
(***************************************************************************)
VARIABLES
    \* ---- _call_with_retry ----
    api_keys,               \* _get_api_keys(): the ordered credential list
    max_retries_per_model,  \* the parameter max_retries_per_model
    rpc,                    \* position in _call_with_retry
    key_idx,                \* enumerate index of the outer loop (0-based)
    model_i,                \* position of model_name in FALLBACK_MODELS (1-based)
    attempt,                \* loop variable of range(max_retries_per_model)
    configured,             \* the key last given to genai.configure
    model,                  \* the name held by genai.GenerativeModel
    last_error,             \* last_error
    response,               \* the value returned
    raised,                 \* the exception that left the function
    lastWait,               \* argument of the time.sleep of the last step, 0 if none
    \* ---- history of the external calls of this invocation ----
    nCalls,                 \* number of model.generate_content calls made
    order,                  \* the (key_idx, model_i) pairs called, in first-call order
    pairCalls,              \* calls made to the pair called last
    prevCall,               \* the last call made and how it ended
    hardSeen,               \* some call failed with a non-rate error
    firstSuccess,           \* number of the first call that succeeded, 0 if none
    \* ---- process_exercise ----
    pc,                     \* position in process_exercise
    skip_db,                \* the parameter skip_db
    conn,                   \* conn: "none" (None), "open" or "closed"
    parsed,                 \* parse_exercise_pdf has returned
    setup_items,            \* setup_items
    query_items,            \* query_items
    generated,              \* generate_all has returned
    idx,                    \* position of the running for loop (1-based)
    screenshots,            \* the image files written, in order
    docx,                   \* the Word file was written
    pdf,                    \* the PDF file was written
    peRaised,               \* the exception that left process_exercise
    \* ---- history of one process_exercise run ----
    dbLog,                  \* what was sent over the connection, in order
    genLog,                 \* the generation functions entered, in order
    aiCalls,                \* invocations of _call_with_retry
    connectFailed,          \* get_db_connection raised
    \* ---- one call of a text function ----
    fpc,                    \* "idle", or the function called and whether it has ended
    text,                   \* the argument of _parse_json_response
    parse_result,           \* how _parse_json_response ended: [raised, value]
    full_text,              \* the argument of extract_practice_section
    practice_text,          \* how extract_practice_section ended: [raised, value]
    \* ---- main, from the search for the exercise files on ----
    mpc,                    \* position in main
    exercise,               \* args.exercise
    listing,                \* what os.listdir(directory) returns
    all_pdfs,               \* all_pdfs
    pdfs_to_process,        \* pdfs_to_process
    pos,                    \* position of the for loop over pdfs_to_process (1-based)
    processed               \* the process_exercise calls made and how each ended, in order

retryVars ==
    << api_keys, max_retries_per_model, rpc, key_idx, model_i, attempt, configured,
       model, last_error, response, raised, lastWait,
       nCalls, order, pairCalls, prevCall, hardSeen, firstSuccess >>

peVars ==
    << pc, skip_db, conn, parsed, setup_items, query_items, generated, idx, screenshots,
       docx, pdf, peRaised, dbLog, genLog, aiCalls, connectFailed >>

textVars == << fpc, text, parse_result, full_text, practice_text >>

mainVars == << mpc, exercise, listing, all_pdfs, pdfs_to_process, pos, processed >>

vars == << retryVars, peVars, textVars, mainVars >>

\* Python None
None == [n |-> 0, text |-> << >>]

NoCall ==
    [n |-> 0, key_idx |-> 0, model_i |-> 0, key |-> "", model |-> "", kind |-> "none",
     text |-> << >>]

\* credentials are opaque tokens; the list may repeat one
KeyTokens == { "key-A", "key-B" }

\* the credential lists, up to the renaming of the tokens
KeyLists ==
    { l \in UNION { [1..n -> KeyTokens] : n \in 0..MaxKeys } : Len(l) > 0 => l[1] = "key-A" }

(***************************************************************************)
(* _call_with_retry: control flow as functions of the loop variables.      *)
(***************************************************************************)
Pos(p, k, m, a, w) == [rpc |-> p, key_idx |-> k, model_i |-> m, attempt |-> a, wait |-> w]

\* exhaustion declared once the models of one credential are used up
NextModelMutOneKey(k, m, nkeys) ==
    IF m < NumModels THEN Pos("attempt", k, m + 1, 0, 0)
    ELSE Pos("exhausted", k, m, 0, 0)

\* the inner model loop is done with model m under key k: next model of the
\* same key, else the first model of the next key, else the loops are over
NextModel(k, m, nkeys) ==
    IF m < NumModels THEN Pos("attempt", k, m + 1, 0, 0)
    ELSE IF k + 1 < nkeys THEN Pos("attempt", k + 1, 1, 0, 0)
    ELSE Pos("exhausted", k, m, 0, 0)

\* the return is missing: the loops go on after a success
OnSuccessMutNoReturn(k, m, a, nkeys, maxr) == NextModel(k, m, nkeys)

\* return response
OnSuccess(k, m, a, nkeys, maxr) == Pos("returned", k, m, a, 0)

\* off by one: one attempt more than max_retries_per_model
OnFailureMutExtraAttempt(k, m, a, rate, nkeys, maxr) ==
    IF rate
    THEN IF a < maxr
         THEN Pos("attempt", k, m, a + 1, BackoffUnit * (a + 1))
         ELSE NextModel(k, m, nkeys)
    ELSE NextModel(k, m, nkeys)

\* the break is missing: a hard error is retried like a rate signal
OnFailureMutNoBreak(k, m, a, rate, nkeys, maxr) ==
    IF a < maxr - 1
    THEN Pos("attempt", k, m, a + 1, IF rate THEN BackoffUnit * (a + 1) ELSE 0)
    ELSE NextModel(k, m, nkeys)

\* the attempt counter is not advanced: a rate signal is retried for ever
OnFailureMutRetryForever(k, m, a, rate, nkeys, maxr) ==
    IF rate
    THEN Pos("attempt", k, m, a, BackoffUnit * (a + 1))
    ELSE NextModel(k, m, nkeys)

\* the sleep is taken after the last allowed attempt too
OnFailureMutSleepOnLast(k, m, a, rate, nkeys, maxr) ==
    IF rate
    THEN IF a < maxr - 1
         THEN Pos("attempt", k, m, a + 1, BackoffUnit * (a + 1))
         ELSE [NextModel(k, m, nkeys) EXCEPT !.wait = BackoffUnit * (a + 1)]
    ELSE NextModel(k, m, nkeys)

\* the except branch
OnFailure(k, m, a, rate, nkeys, maxr) ==
    IF rate
    THEN IF a < maxr - 1
         THEN Pos("attempt", k, m, a + 1, BackoffUnit * (a + 1))
         ELSE NextModel(k, m, nkeys)
    ELSE NextModel(k, m, nkeys)

\* only the first failure is kept
LastErrorAfterMutFirst(old, e) == IF old.n = 0 THEN e ELSE old

\* last_error = e
LastErrorAfter(old, e) == e

\* the exception of the final raise, carrying last_error in its message
ExhaustedError(err) == [type |-> "Exception", msg |-> "All models and API keys exhausted", last |-> err]

\* raised by _get_api_keys when no key is configured
NoKeyError == [type |-> "ValueError", msg |-> "GEMINI_API_KEY not found", last |-> None]

NoException == [type |-> "none", msg |-> "", last |-> None]

NoResponse == [n |-> 0, key_idx |-> 0, model_i |-> 0, key |-> "", model |-> ""]

(***************************************************************************)
(* _call_with_retry: actions.                                              *)
(***************************************************************************)
\* process_exercise is not running
\* a text function that has not ended
NoOutcome == [raised |-> "none", value |-> << >>]

\* no text function is called
TextIdle ==
    /\ fpc = "idle"
    /\ text = << >>
    /\ parse_result = NoOutcome
    /\ full_text = << >>
    /\ practice_text = NoOutcome

MainIdle ==
    /\ mpc = "idle"
    /\ exercise = << >>
    /\ listing = << >>
    /\ all_pdfs = << >>
    /\ pdfs_to_process = << >>
    /\ pos = 1
    /\ processed = << >>

ExerciseIdle ==
    /\ pc = "idle"
    /\ skip_db = FALSE
    /\ conn = "none"
    /\ parsed = FALSE
    /\ setup_items = << >>
    /\ query_items = << >>
    /\ generated = FALSE
    /\ idx = 1
    /\ screenshots = << >>
    /\ docx = FALSE
    /\ pdf = FALSE
    /\ peRaised = "none"
    /\ dbLog = << >>
    /\ genLog = << >>
    /\ aiCalls = 0
    /\ connectFailed = FALSE

InitRetry ==
    /\ ExerciseIdle
    /\ TextIdle
    /\ MainIdle
    /\ api_keys \in KeyLists
    /\ max_retries_per_model \in 1..MaxRetries
    /\ rpc = "start"
    /\ key_idx = 0
    /\ model_i = 0
    /\ attempt = 0
    /\ configured = ""
    /\ model = ""
    /\ last_error = None
    /\ response = NoResponse
    /\ raised = NoException
    /\ lastWait = 0
    /\ nCalls = 0
    /\ order = << >>
    /\ pairCalls = 0
    /\ prevCall = NoCall
    /\ hardSeen = FALSE
    /\ firstSuccess = 0

historyVars == << nCalls, order, pairCalls, prevCall, hardSeen, firstSuccess >>

\* move the loop variables to position p; entering an outer or inner iteration
\* runs genai.configure(api_key) and genai.GenerativeModel(model_name)
Goto(p) ==
    /\ rpc' = p.rpc
    /\ key_idx' = p.key_idx
    /\ model_i' = p.model_i
    /\ attempt' = p.attempt
    /\ lastWait' = p.wait
    /\ configured' = IF p.rpc = "attempt" THEN api_keys[p.key_idx + 1] ELSE configured
    /\ model' = IF p.rpc = "attempt" THEN FALLBACK_MODELS[p.model_i] ELSE model

\* api_keys = _get_api_keys(); last_error = None; first iteration of both loops
CallWithRetryEnter ==
    /\ rpc = "start"
    /\ Len(api_keys) > 0
    /\ Goto(Pos("attempt", 0, 1, 0, 0))
    /\ last_error' = None
    /\ UNCHANGED << api_keys, max_retries_per_model, response, raised, historyVars, peVars, textVars,
                    mainVars >>

\* _get_api_keys raises ValueError: no credential configured
CallWithRetryNoKeys ==
    /\ rpc = "start"
    /\ Len(api_keys) = 0
    /\ rpc' = "raised"
    /\ raised' = NoKeyError
    /\ UNCHANGED << api_keys, max_retries_per_model, key_idx, model_i, attempt, configured,
                    model, last_error, response, lastWait, historyVars, peVars, textVars,
                    mainVars >>

\* bookkeeping of one model.generate_content call
RecordCall(kind, e) ==
    /\ nCalls' = nCalls + 1
    /\ order' = IF Len(order) > 0 /\ order[Len(order)] = << key_idx, model_i >>
                THEN order
                ELSE Append(order, << key_idx, model_i >>)
    /\ pairCalls' = IF prevCall.kind # "none" /\ prevCall.key_idx = key_idx
                       /\ prevCall.model_i = model_i
                    THEN pairCalls + 1
                    ELSE 1
    /\ prevCall' = [n |-> nCalls + 1, key_idx |-> key_idx, model_i |-> model_i,
                    key |-> configured, model |-> model, kind |-> kind, text |-> e]
    /\ hardSeen' = (hardSeen \/ kind = "hard")
    /\ firstSuccess' = IF kind = "ok" /\ firstSuccess = 0 THEN nCalls + 1 ELSE firstSuccess

\* response = model.generate_content(prompt) succeeds: return response
AttemptSucceeds ==
    /\ rpc = "attempt"
    /\ RecordCall("ok", << >>)
    /\ response' = [n |-> nCalls + 1, key_idx |-> key_idx, model_i |-> model_i,
                    key |-> configured, model |-> model]
    /\ Goto(OnSuccess(key_idx, model_i, attempt, Len(api_keys), max_retries_per_model))
    /\ UNCHANGED << api_keys, max_retries_per_model, last_error, raised, peVars, textVars,
                    mainVars >>

\* model.generate_content(prompt) raises e: the except branch, then whatever the
\* loops do up to the next call, or the final raise
AttemptFails(e) ==
    /\ rpc = "attempt"
    /\ LET rate == IsRateLimit(e)
           err == LastErrorAfter(last_error, [n |-> nCalls + 1, text |-> e])
           p == OnFailure(key_idx, model_i, attempt, rate, Len(api_keys),
                          max_retries_per_model)
       IN /\ RecordCall(IF rate THEN "rate" ELSE "hard", e)
          /\ last_error' = err
          /\ IF p.rpc = "exhausted"
             THEN /\ Goto(Pos("raised", p.key_idx, p.model_i, p.attempt, p.wait))
                  /\ raised' = ExhaustedError(err)
             ELSE /\ Goto(p)
                  /\ UNCHANGED raised
    /\ UNCHANGED << api_keys, max_retries_per_model, response, peVars, textVars,
                    mainVars >>

NextRetry ==
    \/ CallWithRetryEnter
    \/ CallWithRetryNoKeys
    \/ AttemptSucceeds
    \/ \E e \in ErrorTexts : AttemptFails(e)

SpecRetry == InitRetry /\ [][NextRetry]_vars

\* the function runs in one thread and every call and sleep it makes comes
\* back: a step that can be taken is taken
SpecRetryFair == SpecRetry /\ WF_vars(NextRetry)

(***************************************************************************)
(* The database: get_db_connection, drop_tables_by_prefix and              *)
(* execute_sql_safely.                                                     *)
(***************************************************************************)
\* the error codes after which the direct connection is tried
FallbackCodes == { "6005", "10061", "12514", "12541", "12170" }

\* what oracledb.connect by the listener may do: succeed, or fail with a code
ThinOutcomes == { "ok", "12541", "1017" }

\* get_db_connection: "open" for a connection returned, "error" for an
\* exception raised. thin: outcome of the network attempt; home: whether
\* find_oracle_home finds an installation; thick: whether the direct attempt works
GetDbConnection(thin, home, thick) ==
    IF thin = "ok" THEN "open"
    ELSE IF thin \notin FallbackCodes THEN "error"
    ELSE IF ~home THEN "error"
    ELSE IF thick THEN "open"
    ELSE "error"

\* what the database may do with one statement
DbOutcomes ==
    { [raises |-> FALSE, rows |-> "0"],
      [raises |-> FALSE, rows |-> "1"],
      [raises |-> TRUE, rows |-> "0"] }

DbErrorText == "ORA-00942: table or view does not exist"

\* the body of the try block of execute_sql_safely when the driver does not
\* raise: the text returned, as the segments it is built from
ExecuteSqlTry(sql, out) ==
    LET clean_sql == Upper(Strip(sql))
        S == << "S","E","L","E","C","T" >>
        W == << "W","I","T","H" >>
        C == << "C","R","E","A","T","E" >>
        D == << "D","R","O","P" >>
        A == << "A","L","T","E","R" >>
        I == << "I","N","S","E","R","T" >>
        U == << "U","P","D","A","T","E" >>
        X == << "D","E","L","E","T","E" >>
    IN IF StartsWith(clean_sql, S) \/ StartsWith(clean_sql, W)
       THEN IF out.rows = "0"
            THEN << "no rows selected" >>
            ELSE << "df.to_string(index=False)" >>
       ELSE IF StartsWith(clean_sql, C) THEN << "Table created." >>
       ELSE IF StartsWith(clean_sql, D) THEN << "Table dropped." >>
       ELSE IF StartsWith(clean_sql, A) THEN << "Table altered." >>
       ELSE IF StartsWith(clean_sql, I) THEN << "1 row created." >>
       ELSE IF StartsWith(clean_sql, U) THEN << out.rows, " rows updated." >>
       ELSE IF StartsWith(clean_sql, X) THEN << out.rows, " rows deleted." >>
       ELSE << "Command executed successfully." >>

\* the except clause is missing: the driver's exception leaves the function
ExecuteSqlSafelyMutNoCatch(sql, out) ==
    IF out.raises
    THEN [raised |-> TRUE, result |-> Absent]
    ELSE [raised |-> FALSE, result |-> ExecuteSqlTry(sql, out)]

\* execute_sql_safely: raised tells whether an exception leaves the function;
\* the driver's exception is caught and returned as text
ExecuteSqlSafely(sql, out) ==
    IF out.raises
    THEN [raised |-> FALSE, result |-> << "ERROR", " at line 1:\n", DbErrorText >>]
    ELSE [raised |-> FALSE, result |-> ExecuteSqlTry(sql, out)]

SkippedResult == << "(DB execution skipped)" >>

(***************************************************************************)
(* The AI generation step as process_exercise sees it: _call_with_retry    *)
(* returns a response or raises (SpecRetry), and the text of the response  *)
(* goes through _parse_json_response.                                      *)
(***************************************************************************)
RECURSIVE JoinComma(_)
JoinComma(l) ==
    IF Len(l) = 0 THEN << >>
    ELSE IF Len(l) = 1 THEN << l[1] >>
    ELSE << l[1], "," >> \o JoinComma(Tail(l))

ArrayText(l) == << "[" >> \o JoinComma(l) \o << "]" >>

ObjLists(objs) == UNION { [1..n -> objs] : n \in 0..MaxItems }

\* response.text: a bare array, a fenced array, an array after prose, a lone
\* object, prose alone, or brackets nested too deep for the decoder
ResponseTexts(objs) ==
    { ArrayText(l) : l \in ObjLists(objs) }
    \cup { << Fence, LangTag, Newline >> \o ArrayText(l) \o << Newline, Fence >> :
             l \in ObjLists(objs) }
    \cup { << Prose, Newline >> \o ArrayText(l) : l \in ObjLists(objs) }
    \cup { << o >> : o \in objs }
    \cup { << Prose >>, << DeepOpen >> }

SetupObjs == { ObjCreate, ObjBegin, ObjNoSql }
QueryObjs == { ObjSelect, ObjUpdate, ObjNoSql }

\* how one use of the AI step ends: a response, or one of its two exceptions
AiOutcomes(objs) ==
    { [kind |-> "response", text |-> t] : t \in ResponseTexts(objs) }
    \cup { [kind |-> "Exception", text |-> << >>], [kind |-> "ValueError", text |-> << >>] }

\* item['sql'] raises KeyError for some item of the list
SomeSqlAbsent(items) == \E i \in 1..Len(items) : items[i].sql = Absent

\* one use of the AI step inside a generation function: response =
\* _call_with_retry(prompt); return _parse_json_response(response.text).
\* Nothing is caught: an exception of the call or of the parser leaves the
\* function.
AiStepMutSwallow(out) ==
    IF out.kind = "response"
    THEN [raised |-> ParseOutcome(out.text).raised, items |-> ParseJsonResponse(out.text)]
    ELSE [raised |-> "none", items |-> << >>]

AiStep(out) ==
    IF out.kind = "response"
    THEN [raised |-> ParseOutcome(out.text).raised, items |-> ParseJsonResponse(out.text)]
    ELSE [raised |-> out.kind, items |-> << >>]

\* the setup_sql_items argument generate_all gives to
\* generate_practice_queries: the list generate_setup_sql returned
SchemaArgMutNone(setup) == << >>

SchemaArg(setup) == setup

\* the statements the schema context is joined from: item['sql'] of the
\* items whose statement, stripped and lower-cased, starts with create
CreateStmts(setup_sql_items) ==
    LET IsCreate(item) == StartsWith(Lower(Strip(item.sql)), << "c", "r", "e", "a", "t", "e" >>)
    IN  [ i \in 1..Len(SelectSeq(setup_sql_items, IsCreate)) |->
            SelectSeq(setup_sql_items, IsCreate)[i].sql ]

\* one entry of genLog: the generation function entered, the setup list it
\* was given, the schema statements it read from it, how _call_with_retry
\* ended, the exception that left the function and what it returned
GenEntry(step, given, outcome, exc, returned) ==
    [ step |-> step, given |-> given,
      context |-> IF SomeSqlAbsent(given) THEN << >> ELSE CreateStmts(given),
      outcome |-> outcome, raised |-> exc, returned |-> returned ]

(***************************************************************************)
(* process_exercise: control flow.                                         *)
(***************************************************************************)
\* the return after a failed connection is missing
AfterConnectFailureMutGoOn == "parse"

\* except around get_db_connection: print and return
AfterConnectFailure == "abort_connect"

\* the connection is forgotten when the AI returned nothing
ConnAfterEmptyAbortMutLeak(c) == c

\* if conn: conn.close()  before the return of the empty-result abort
ConnAfterEmptyAbort(c) == IF c = "open" THEN "closed" ELSE c

\* the return of the except handler is missing
AfterBatchExceptionMutGoOn == "mkdir"

\* except around the two batches: conn.close() and return
AfterBatchException == "abort_exec"

\* if conn: conn.close()  at the end
ConnAfterDone(c) == IF c = "open" THEN "closed" ELSE c

AfterCleanup(ns) == IF ns > 0 THEN "setup" ELSE "commit"

\* the commit is left out: the query loop follows the setup loop
AfterSetupStmtMutNoCommit(i, ns) == IF i < ns THEN "setup" ELSE "queries"

\* the setup loop, then conn.commit()
AfterSetupStmt(i, ns) == IF i < ns THEN "setup" ELSE "commit"

AfterCommit(nq) == IF nq > 0 THEN "queries" ELSE "mkdir"

AfterQueryStmt(i, nq) == IF i < nq THEN "queries" ELSE "mkdir"

AfterMakeDirs(nq) == IF nq > 0 THEN "screens" ELSE "docx"

AfterScreenshotMutStopEarly(i, nq) == "docx"

AfterScreenshot(i, nq) == IF i < nq THEN "screens" ELSE "docx"

ExecEvent(batch, i, sql, failed) ==
    [op |-> "exec", batch |-> batch, i |-> i, sql |-> sql, failed |-> failed]

CleanupEvent == [op |-> "cleanup", batch |-> "", i |-> 0, sql |-> << >>, failed |-> FALSE]

CommitEvent(failed) ==
    [op |-> "commit", batch |-> "", i |-> 0, sql |-> << >>, failed |-> failed]

(***************************************************************************)
(* process_exercise: actions.                                              *)
(***************************************************************************)
\* _call_with_retry is not running
RetryIdle ==
    /\ api_keys = << >>
    /\ max_retries_per_model = DefaultMaxRetries
    /\ rpc = "idle"
    /\ key_idx = 0
    /\ model_i = 0
    /\ attempt = 0
    /\ configured = ""
    /\ model = ""
    /\ last_error = None
    /\ response = NoResponse
    /\ raised = NoException
    /\ lastWait = 0
    /\ nCalls = 0
    /\ order = << >>
    /\ pairCalls = 0
    /\ prevCall = NoCall
    /\ hardSeen = FALSE
    /\ firstSuccess = 0

Init ==
    /\ RetryIdle
    /\ TextIdle
    /\ MainIdle
    /\ pc = "start"
    /\ skip_db \in BOOLEAN
    /\ conn = "none"
    /\ parsed = FALSE
    /\ setup_items = << >>
    /\ query_items = << >>
    /\ generated = FALSE
    /\ idx = 1
    /\ screenshots = << >>
    /\ docx = FALSE
    /\ pdf = FALSE
    /\ peRaised = "none"
    /\ dbLog = << >>
    /\ genLog = << >>
    /\ aiCalls = 0
    /\ connectFailed = FALSE

\* an exception leaves process_exercise
Raise(type) ==
    /\ pc' = "raised"
    /\ peRaised' = type

\* skip_db: no connection is made
PE_SkipDbCheck ==
    /\ pc = "start"
    /\ skip_db
    /\ pc' = "parse"
    /\ UNCHANGED << retryVars, textVars, mainVars, skip_db, conn, parsed, setup_items, query_items, generated,
                    idx, screenshots, docx, pdf, peRaised, dbLog, genLog, aiCalls,
                    connectFailed >>

\* conn = get_db_connection(), or print and return when it raises
PE_Connect(thin, home, thick) ==
    /\ pc = "start"
    /\ ~skip_db
    /\ IF GetDbConnection(thin, home, thick) = "open"
       THEN /\ conn' = "open"
            /\ pc' = "parse"
            /\ UNCHANGED connectFailed
       ELSE /\ connectFailed' = TRUE
            /\ pc' = AfterConnectFailure
            /\ UNCHANGED conn
    /\ UNCHANGED << retryVars, textVars, mainVars, skip_db, parsed, setup_items, query_items, generated, idx,
                    screenshots, docx, pdf, peRaised, dbLog, genLog, aiCalls >>

\* parsed = parse_exercise_pdf(pdf_path); the PDF library may raise
PE_ParsePdf(ok) ==
    /\ pc = "parse"
    /\ IF ok
       THEN /\ parsed' = TRUE
            /\ pc' = "gen_setup"
            /\ UNCHANGED peRaised
       ELSE /\ Raise("PdfError")
            /\ UNCHANGED parsed
    /\ UNCHANGED << retryVars, textVars, mainVars, skip_db, conn, setup_items, query_items, generated, idx,
                    screenshots, docx, pdf, dbLog, genLog, aiCalls, connectFailed >>

\* generate_all, first half: setup = generate_setup_sql(...); time.sleep(1)
PE_GenerateSetup(out) ==
    LET r == AiStep(out) IN
    /\ pc = "gen_setup"
    /\ genLog' = Append(genLog, GenEntry("setup", << >>, out.kind, r.raised, r.items))
    /\ aiCalls' = aiCalls + 1
    /\ IF r.raised = "none"
       THEN /\ setup_items' = r.items
            /\ pc' = "gen_queries"
            /\ UNCHANGED peRaised
       ELSE /\ Raise(r.raised)
            /\ UNCHANGED setup_items
    /\ UNCHANGED << retryVars, textVars, mainVars, skip_db, conn, parsed, query_items, generated, idx,
                    screenshots, docx, pdf, dbLog, connectFailed >>

\* generate_all, second half: queries = generate_practice_queries(..., setup);
\* building the schema context reads item['sql'] of every setup item
PE_GenerateQueries(out) ==
    LET given == SchemaArg(setup_items)
        r == AiStep(out)
    IN
    /\ pc = "gen_queries"
    /\ IF SomeSqlAbsent(given)
       THEN /\ genLog' = Append(genLog, GenEntry("queries", given, "none", "KeyError", << >>))
            /\ Raise("KeyError")
            /\ UNCHANGED << query_items, generated, aiCalls >>
       ELSE /\ genLog' = Append(genLog, GenEntry("queries", given, out.kind, r.raised, r.items))
            /\ aiCalls' = aiCalls + 1
            /\ IF r.raised = "none"
               THEN /\ query_items' = r.items
                    /\ generated' = TRUE
                    /\ pc' = "check"
                    /\ UNCHANGED peRaised
               ELSE /\ Raise(r.raised)
                    /\ UNCHANGED << query_items, generated >>
    /\ UNCHANGED << retryVars, textVars, mainVars, skip_db, conn, parsed, setup_items, idx, screenshots, docx,
                    pdf, dbLog, connectFailed >>

\* if not setup_items and not query_items: close and return; else choose
\* between the execution stage and the placeholder results
PE_CheckResult ==
    /\ pc = "check"
    /\ IF setup_items = << >> /\ query_items = << >>
       THEN /\ conn' = ConnAfterEmptyAbort(conn)
            /\ pc' = "abort_empty"
       ELSE /\ pc' = IF ~skip_db /\ conn # "none" THEN "cleanup" ELSE "skip_fill"
            /\ UNCHANGED conn
    /\ UNCHANGED << retryVars, textVars, mainVars, skip_db, parsed, setup_items, query_items, generated, idx,
                    screenshots, docx, pdf, peRaised, dbLog, genLog, aiCalls, connectFailed >>

\* drop_tables_by_prefix(conn, table_prefix): its errors are swallowed
PE_Cleanup ==
    /\ pc = "cleanup"
    /\ dbLog' = Append(dbLog, CleanupEvent)
    /\ pc' = AfterCleanup(Len(setup_items))
    /\ idx' = 1
    /\ UNCHANGED << retryVars, textVars, mainVars, skip_db, conn, parsed, setup_items, query_items, generated,
                    screenshots, docx, pdf, peRaised, genLog, aiCalls, connectFailed >>

\* the except handler of the execution stage
AbortBatch ==
    /\ conn' = "closed"
    /\ pc' = AfterBatchException

\* one iteration of  for i, item in enumerate(setup_items)
PE_ExecSetup(out) ==
    /\ pc = "setup"
    /\ LET item == setup_items[idx]
           r == ExecuteSqlSafely(item.sql, out)
       IN IF item.sql = Absent
          THEN /\ AbortBatch
               /\ UNCHANGED << setup_items, dbLog, idx >>
          ELSE /\ dbLog' = Append(dbLog, ExecEvent("setup", idx, item.sql, out.raises))
               /\ IF r.raised
                  THEN /\ AbortBatch
                       /\ UNCHANGED << setup_items, idx >>
                  ELSE /\ setup_items' = [setup_items EXCEPT ![idx].result = r.result]
                       /\ pc' = AfterSetupStmt(idx, Len(setup_items))
                       /\ idx' = IF idx < Len(setup_items) THEN idx + 1 ELSE 1
                       /\ UNCHANGED conn
    /\ UNCHANGED << retryVars, textVars, mainVars, skip_db, parsed, query_items, generated, screenshots, docx,
                    pdf, peRaised, genLog, aiCalls, connectFailed >>

\* conn.commit()
PE_Commit(ok) ==
    /\ pc = "commit"
    /\ dbLog' = Append(dbLog, CommitEvent(~ok))
    /\ IF ok
       THEN /\ pc' = AfterCommit(Len(query_items))
            /\ UNCHANGED conn
       ELSE AbortBatch
    /\ idx' = 1
    /\ UNCHANGED << retryVars, textVars, mainVars, skip_db, parsed, setup_items, query_items, generated,
                    screenshots, docx, pdf, peRaised, genLog, aiCalls, connectFailed >>

\* one iteration of  for i, item in enumerate(query_items)
PE_ExecQuery(out) ==
    /\ pc = "queries"
    /\ idx <= Len(query_items)
    /\ LET item == query_items[idx]
           r == ExecuteSqlSafely(item.sql, out)
       IN IF item.sql = Absent
          THEN /\ AbortBatch
               /\ UNCHANGED << query_items, dbLog, idx >>
          ELSE /\ dbLog' = Append(dbLog, ExecEvent("queries", idx, item.sql, out.raises))
               /\ IF r.raised
                  THEN /\ AbortBatch
                       /\ UNCHANGED << query_items, idx >>
                  ELSE /\ query_items' = [query_items EXCEPT ![idx].result = r.result]
                       /\ pc' = AfterQueryStmt(idx, Len(query_items))
                       /\ idx' = IF idx < Len(query_items) THEN idx + 1 ELSE 1
                       /\ UNCHANGED conn
    /\ UNCHANGED << retryVars, textVars, mainVars, skip_db, parsed, setup_items, generated, screenshots, docx,
                    pdf, peRaised, genLog, aiCalls, connectFailed >>

SkipFillMutSkipFirst(items) ==
    [i \in 1..Len(items) |->
        IF i = 1 THEN items[i] ELSE [items[i] EXCEPT !.result = SkippedResult]]

\* the loop body of the skip branch, over the items of one list
SkipFill(items) ==
    [i \in 1..Len(items) |-> [items[i] EXCEPT !.result = SkippedResult]]

\* for item in all_items: item['result'] = "(DB execution skipped)"
PE_SkipFill ==
    /\ pc = "skip_fill"
    /\ setup_items' = SkipFill(setup_items)
    /\ query_items' = SkipFill(query_items)
    /\ pc' = "mkdir"
    /\ UNCHANGED << retryVars, textVars, mainVars, skip_db, conn, parsed, generated, idx, screenshots, docx,
                    pdf, peRaised, dbLog, genLog, aiCalls, connectFailed >>

\* os.makedirs(img_dir, exist_ok=True)
PE_MakeImgDir(ok) ==
    /\ pc = "mkdir"
    /\ IF ok
       THEN /\ pc' = AfterMakeDirs(Len(query_items))
            /\ UNCHANGED peRaised
       ELSE Raise("OSError")
    /\ idx' = 1
    /\ UNCHANGED << retryVars, textVars, mainVars, skip_db, conn, parsed, setup_items, query_items, generated,
                    screenshots, docx, pdf, dbLog, genLog, aiCalls, connectFailed >>

\* one iteration of the screenshot loop: create_terminal_screenshot(
\* item['sql'], item.get('result', ''), img_filename)
PE_Screenshot(ok) ==
    /\ pc = "screens"
    /\ LET item == query_items[idx]
       IN IF item.sql = Absent
          THEN /\ Raise("KeyError")
               /\ UNCHANGED << screenshots, idx >>
          ELSE IF ok
          THEN /\ screenshots' = Append(screenshots,
                     [i |-> idx, sql |-> item.sql,
                      result |-> IF item.result = Absent THEN << "" >> ELSE item.result])
               /\ pc' = AfterScreenshot(idx, Len(query_items))
               /\ idx' = IF idx < Len(query_items) THEN idx + 1 ELSE 1
               /\ UNCHANGED peRaised
          ELSE /\ Raise("OSError")
               /\ UNCHANGED << screenshots, idx >>
    /\ UNCHANGED << retryVars, textVars, mainVars, skip_db, conn, parsed, setup_items, query_items, generated,
                    docx, pdf, dbLog, genLog, aiCalls, connectFailed >>

\* generate_docx(...): doc.save may raise
PE_GenerateDocx(ok) ==
    /\ pc = "docx"
    /\ IF ok
       THEN /\ docx' = TRUE
            /\ pc' = "pdf"
            /\ UNCHANGED peRaised
       ELSE /\ Raise("OSError")
            /\ UNCHANGED docx
    /\ UNCHANGED << retryVars, textVars, mainVars, skip_db, conn, parsed, setup_items, query_items, generated,
                    idx, screenshots, pdf, dbLog, genLog, aiCalls, connectFailed >>

\* convert_to_pdf(docx_path, pdf_path_out), which swallows its errors, then
\* if conn: conn.close()
PE_ConvertPdfAndClose(ok) ==
    /\ pc = "pdf"
    /\ pdf' = ok
    /\ conn' = ConnAfterDone(conn)
    /\ pc' = "done"
    /\ UNCHANGED << retryVars, textVars, mainVars, skip_db, parsed, setup_items, query_items, generated, idx,
                    screenshots, docx, peRaised, dbLog, genLog, aiCalls, connectFailed >>

Next ==
    \/ PE_SkipDbCheck
    \/ \E thin \in ThinOutcomes, home \in BOOLEAN, thick \in BOOLEAN :
          PE_Connect(thin, home, thick)
    \/ \E ok \in BOOLEAN : PE_ParsePdf(ok)
    \/ \E out \in AiOutcomes(SetupObjs) : PE_GenerateSetup(out)
    \/ \E out \in AiOutcomes(QueryObjs) : PE_GenerateQueries(out)
    \/ PE_CheckResult
    \/ PE_Cleanup
    \/ \E out \in DbOutcomes : PE_ExecSetup(out)
    \/ \E ok \in BOOLEAN : PE_Commit(ok)
    \/ \E out \in DbOutcomes : PE_ExecQuery(out)
    \/ PE_SkipFill
    \/ \E ok \in BOOLEAN : PE_MakeImgDir(ok)
    \/ \E ok \in BOOLEAN : PE_Screenshot(ok)
    \/ \E ok \in BOOLEAN : PE_GenerateDocx(ok)
    \/ \E ok \in BOOLEAN : PE_ConvertPdfAndClose(ok)

Spec == Init /\ [][Next]_vars

(***************************************************************************)
(* _parse_json_response on its own: one call on a response text.           *)
(***************************************************************************)
MaxTextLen == 5
MaxWs == 1

\* every text of up to MaxTextLen lexemes of JSON punctuation, values and
\* prose
ParseAlphabet == { "[", "]", ",", ObjSelect, Scalar, Prose, DeepOpen }
ShortTexts == UNION { [1..n -> ParseAlphabet] : n \in 0..MaxTextLen }

\* flat JSON arrays of objects and strings
Arrays == { ArrayText(l) : l \in ObjLists({ ObjSelect, Scalar }) }

WhiteRuns == UNION { [1..n -> WhiteTokens] : n \in 0..MaxWs }
OuterWhite == { << >>, << Newline >>, << Space >> }
Tags == { << >>, << LangTag >>, << LangTag, Punct >> }

\* an array between an opening fence with an optional language tag and a
\* closing fence, white space around each part
FencedTexts ==
    { a \o << Fence >> \o tag \o b \o arr \o c \o << Fence >> \o d :
        a \in OuterWhite, tag \in Tags, b \in WhiteRuns, arr \in Arrays,
        c \in WhiteRuns, d \in OuterWhite }

\* arrays with prose between or around them
ProseTexts ==
    { a1 \o << Prose >> \o a2 : a1 \in Arrays, a2 \in Arrays }
    \cup { << Prose >> \o a1 \o << Prose >> : a1 \in Arrays }

ResponseInputs == ShortTexts \cup FencedTexts \cup ProseTexts

InitParse ==
    /\ RetryIdle
    /\ ExerciseIdle
    /\ MainIdle
    /\ fpc = "parse"
    /\ text \in ResponseInputs
    /\ parse_result = NoOutcome
    /\ full_text = << >>
    /\ practice_text = NoOutcome

\* _parse_json_response(text) runs to its return or to an exception
ParseJsonResponseCall ==
    /\ fpc = "parse"
    /\ parse_result' = ParseOutcome(text)
    /\ fpc' = "parsed"
    /\ UNCHANGED << retryVars, peVars, mainVars, text, full_text, practice_text >>

NextParse == ParseJsonResponseCall

SpecParse == InitParse /\ [][NextParse]_vars

(***************************************************************************)
(* extract_practice_section on a document text, a sequence of lexemes:     *)
(* the words of the markers in upper, lower or mixed case, a colon, an     *)
(* item number, white space, other words, and the boilerplate header.      *)
(***************************************************************************)
\* digits and a dot
Number == "1."
Word == "Tables"
Colon == ":"
\* the three header lines the cleanup pattern matches, with their newlines
Header == "<SCHOOL OF COMPUTER SCIENCE AND ENGINEERING .. Semester .. Faculty ..>"

\* re.IGNORECASE: a lexeme with its letters in one case
FoldCase(tok) ==
    CASE tok = "Practice" -> "PRACTICE"
      [] tok = "practice" -> "PRACTICE"
      [] tok = "database" -> "DATABASE"
      [] tok = "Questions" -> "QUESTIONS"
      [] tok = "Exercise" -> "EXERCISE"
      [] OTHER -> tok

\* the first position from i on that holds no white space
RECURSIVE SkipWhite(_, _)
SkipWhite(t, i) == IF i <= Len(t) /\ t[i] \in WhiteTokens THEN SkipWhite(t, i + 1) ELSE i

\* PRACTICE\s+<second> matches at position i
PracticeAt(t, i, second) ==
    /\ i <= Len(t)
    /\ FoldCase(t[i]) = "PRACTICE"
    /\ SkipWhite(t, i + 1) > i + 1
    /\ SkipWhite(t, i + 1) <= Len(t)
    /\ FoldCase(t[SkipWhite(t, i + 1)]) = second

\* the three practice_markers, in the order of the list: the first two take
\* an item number and white space before PRACTICE, the third is
\* EXERCISE\s*:
PracticeMarkers == << "DATABASE", "QUESTIONS", "EXERCISE" >>

MarkerAt(marker, t, i) ==
    IF marker = "EXERCISE"
    THEN /\ i <= Len(t)
         /\ FoldCase(t[i]) = "EXERCISE"
         /\ SkipWhite(t, i + 1) <= Len(t)
         /\ t[SkipWhite(t, i + 1)] = Colon
    ELSE \/ PracticeAt(t, i, marker)
         \/ /\ i <= Len(t)
            /\ t[i] = Number
            /\ PracticeAt(t, SkipWhite(t, i + 1), marker)

\* re.search(marker, full_text, re.IGNORECASE): match.start(), or 0 for None
SearchMarker(marker, t) ==
    LET starts == { i \in 1..Len(t) : MarkerAt(marker, t, i) }
    IN IF starts = {} THEN 0 ELSE CHOOSE i \in starts : \A j \in starts : i <= j

\* the loop stops at the first pattern of the list that matches
RECURSIVE EarliestPosMutFirstListed(_, _, _, _)
EarliestPosMutFirstListed(markers, k, t, earliest_pos) ==
    IF k > Len(markers) THEN earliest_pos
    ELSE IF SearchMarker(markers[k], t) # 0 THEN SearchMarker(markers[k], t)
    ELSE EarliestPosMutFirstListed(markers, k + 1, t, earliest_pos)

\* the loop over practice_markers from the k-th on: earliest_pos is lowered
\* by every match that starts before it
RECURSIVE EarliestPos(_, _, _, _)
EarliestPos(markers, k, t, earliest_pos) ==
    IF k > Len(markers) THEN earliest_pos
    ELSE LET match == SearchMarker(markers[k], t)
         IN EarliestPos(markers, k + 1, t,
                        IF match # 0 /\ match < earliest_pos THEN match ELSE earliest_pos)

\* re.sub(header_pattern, '', practice_text)
RemoveHeaders(t) == SelectSeq(t, LAMBDA x : x # Header)

\* the text is trimmed on the early return too
NoMarkerResultMutStrip(t) == StripTokens(t)

\* if earliest_pos == len(full_text): return full_text
NoMarkerResult(t) == t

\* extract_practice_section; one past the end stands for len(full_text)
ExtractPracticeSection(t) ==
    LET earliest_pos == EarliestPos(PracticeMarkers, 1, t, Len(t) + 1)
    IN IF earliest_pos = Len(t) + 1
       THEN [raised |-> "none", value |-> NoMarkerResult(t)]
       ELSE [raised |-> "none",
             value |-> StripTokens(RemoveHeaders(SubSeq(t, earliest_pos, Len(t))))]

MaxChunks == 3

\* the pieces documents are put together from: markers in several spellings,
\* parts of markers, and other content
DocChunks ==
    { << "Practice", Space, "DATABASE" >>,
      << Number, Space, "PRACTICE", Newline, "database" >>,
      << "practice", Space, "Questions" >>,
      << Number, "PRACTICE", Space, Space, "QUESTIONS" >>,
      << "Exercise", Colon >>,
      << "EXERCISE", Space, Colon >>,
      << "PRACTICE" >>, << "DATABASE" >>, << "EXERCISE" >>, << Colon >>,
      << Word >>, << Number >>, << Space >>, << Newline >>, << Header >> }

RECURSIVE Documents(_)
Documents(n) ==
    IF n = 0 THEN { << >> }
    ELSE Documents(n - 1) \cup { d \o c : d \in Documents(n - 1), c \in DocChunks }

InitExtract ==
    /\ RetryIdle
    /\ ExerciseIdle
    /\ MainIdle
    /\ fpc = "extract"
    /\ full_text \in Documents(MaxChunks)
    /\ practice_text = NoOutcome
    /\ text = << >>
    /\ parse_result = NoOutcome

\* extract_practice_section(full_text) runs to its return
ExtractPracticeSectionCall ==
    /\ fpc = "extract"
    /\ practice_text' = ExtractPracticeSection(full_text)
    /\ fpc' = "extracted"
    /\ UNCHANGED << retryVars, peVars, mainVars, text, parse_result, full_text >>

NextExtract == ExtractPracticeSectionCall

SpecExtract == InitExtract /\ [][NextExtract]_vars

(***************************************************************************)
(* Claims about _call_with_retry (checked under SpecRetry).                *)
(***************************************************************************)
\* the (key_idx, model_i) pairs in credential-major order
PairOrder(nkeys) ==
    [i \in 1..(nkeys * NumModels) |-> << (i - 1) \div NumModels, ((i - 1) % NumModels) + 1 >>]

\* the pair after pr in credential-major order (meaningful when one exists)
SuccPair(pr) ==
    IF pr[2] < NumModels THEN << pr[1], pr[2] + 1 >> ELSE << pr[1] + 1, 1 >>

PairOf(c) == << c.key_idx, c.model_i >>

\* the step makes an external call
IsCallStep == nCalls' = nCalls + 1

\* C1: as soon as one external call succeeds its response is returned and no
\* further external call is made for any credential or model; the response
\* returned is that of the first successful call in the attempt order.
C1_FirstSuccessReturned ==
    /\ firstSuccess # 0 =>
         /\ rpc = "returned"
         /\ nCalls = firstSuccess
         /\ prevCall.kind = "ok"
         /\ response.n = firstSuccess
         /\ response.key = prevCall.key
         /\ response.model = prevCall.model
    /\ rpc = "returned" => firstSuccess # 0

\* a success on an early pair, with models and a credential still untried
C1_Witness ==
    /\ rpc = "returned"
    /\ Len(api_keys) = 2
    /\ response.key_idx = 0
    /\ response.model_i = 2
    /\ response.n = 3
    /\ nCalls = 3

\* C2: the pairs are attempted in credential-major order (credentials in listed
\* order, for each all models of FALLBACK_MODELS in list order from the first),
\* and the exhaustion error is raised only after every pair was called.
C2_AllPairsInOrderBeforeExhaustion ==
    /\ Len(order) <= Len(api_keys) * NumModels
    /\ order = SubSeq(PairOrder(Len(api_keys)), 1, Len(order))
    /\ prevCall.kind # "none" =>
         /\ prevCall.key = api_keys[prevCall.key_idx + 1]
         /\ prevCall.model = FALLBACK_MODELS[prevCall.model_i]
         /\ PairOf(prevCall) = order[Len(order)]
    /\ raised.type = "Exception" =>
         /\ order = PairOrder(Len(api_keys))
         /\ nCalls >= Len(api_keys) * NumModels
         /\ firstSuccess = 0

\* exhaustion over two credentials
C2_Witness ==
    /\ rpc = "raised"
    /\ raised.type = "Exception"
    /\ Len(api_keys) = 2
    /\ Len(order) = 2 * NumModels

\* C3, steps: after a rate/quota failure the same pair is called again while it
\* has had fewer than max_retries_per_model calls, and once it has had that many
\* the next call goes to the next model under the same credential.
C3_RateStep ==
    (IsCallStep /\ prevCall.kind = "rate") =>
        IF pairCalls < max_retries_per_model
        THEN /\ PairOf(prevCall') = PairOf(prevCall)
             /\ pairCalls' = pairCalls + 1
        ELSE /\ pairCalls' = 1
             /\ prevCall.model_i < NumModels =>
                  PairOf(prevCall') = << prevCall.key_idx, prevCall.model_i + 1 >>

\* C3, states: no pair is called more than max_retries_per_model times; if the
\* first model was rate-limited throughout and the second model succeeds, its
\* response is returned after exactly max_retries_per_model calls to the first.
C3_RateState ==
    /\ pairCalls <= max_retries_per_model
    /\ (rpc = "returned" /\ ~hardSeen /\ PairOf(response) = << 0, 2 >> /\ pairCalls = 1) =>
         /\ nCalls = max_retries_per_model + 1
         /\ response.n = max_retries_per_model + 1
         /\ response.model = FALLBACK_MODELS[2]

\* C3: a pair that keeps failing with a rate/quota signal is called exactly
\* max_retries_per_model times, never more, and the next call goes to the next
\* model under the same credential.
C3_RateLimitedPairCalledMaxRetriesTimes == [][C3_RateStep]_vars /\ []C3_RateState

\* first model rate-limited twice, second model answers at once
C3_Witness ==
    /\ rpc = "returned"
    /\ ~hardSeen
    /\ max_retries_per_model = 2
    /\ PairOf(response) = << 0, 2 >>
    /\ nCalls = 3

\* no pair occurs twice in the order of first calls
NoPairCalledAgain ==
    \A i, j \in 1..Len(order) : order[i] = order[j] => i = j

\* C4, steps: the call after a non-rate failure goes to another pair, the next
\* model under the same credential or the first model of the next credential.
C4_HardStep ==
    (IsCallStep /\ prevCall.kind = "hard") =>
        /\ PairOf(prevCall') # PairOf(prevCall)
        /\ PairOf(prevCall') = SuccPair(PairOf(prevCall))
        /\ pairCalls' = 1

\* C4: after a failure that is not a rate/quota signal the model is not called
\* again under the current credential, and the next call goes to the next model
\* under the same credential, or to the first model of the next credential.
C4_HardErrorSkipsModel == [][C4_HardStep]_vars /\ []NoPairCalledAgain

\* every model of the first credential failed on its single call although a
\* retry was allowed, and the next call went to the first model of the second
C4_Witness ==
    /\ max_retries_per_model = 2
    /\ hardSeen
    /\ nCalls = NumModels + 1
    /\ PairOf(prevCall) = << 1, 1 >>

\* C5: on exhaustion one aggregate error is raised, and it carries the failure
\* of the last external call made, not an earlier one.
C5_ExhaustionCarriesLastError ==
    raised.type = "Exception" =>
        /\ rpc = "raised"
        /\ nCalls >= 1
        /\ prevCall.kind \in { "rate", "hard" }
        /\ raised.last = [n |-> nCalls, text |-> prevCall.text]
        /\ raised.last = last_error

\* exhaustion whose last failure is a rate signal after an earlier hard error
C5_Witness ==
    /\ rpc = "raised"
    /\ raised.type = "Exception"
    /\ hardSeen
    /\ raised.last.text = ErrQuota
    /\ raised.last.n > 2

(***************************************************************************)
(* Claims about process_exercise (checked under Spec).                     *)
(***************************************************************************)
NoArtifacts ==
    /\ screenshots = << >>
    /\ ~docx
    /\ ~pdf

IsExec(e, batch) == e.op = "exec" /\ e.batch = batch

\* a setup statement failed, or the commit of the setup batch did
SetupBatchErrorSeen ==
    \E j \in 1..Len(dbLog) :
        \/ IsExec(dbLog[j], "setup") /\ dbLog[j].failed
        \/ dbLog[j].op = "commit" /\ dbLog[j].failed

CommitFailed == \E j \in 1..Len(dbLog) : dbLog[j].op = "commit" /\ dbLog[j].failed

NoQueryExecuted == \A j \in 1..Len(dbLog) : ~IsExec(dbLog[j], "queries")

\* C6: if the database cannot be reached (and execution is not skipped) the
\* run aborts before any other work: the document is not parsed, no AI
\* generation call is made, no SQL is executed and no artifact is produced.
C6_ConnectFailureAbortsBeforeWork ==
    /\ connectFailed =>
         /\ ~skip_db
         /\ pc = "abort_connect"
         /\ ~parsed
         /\ genLog = << >>
         /\ aiCalls = 0
         /\ dbLog = << >>
         /\ NoArtifacts
    /\ pc = "abort_connect" => connectFailed

\* the connection attempt failed and the run has ended
C6_Witness ==
    /\ connectFailed
    /\ ~skip_db
    /\ pc = "abort_connect"

\* C7: if generation returns an empty setup list and an empty query list the
\* run aborts: no SQL is executed, no artifact is produced, and an open
\* connection is closed before returning.
C7_EmptyGenerationAborts ==
    (generated /\ setup_items = << >> /\ query_items = << >> /\ pc # "check") =>
        /\ pc = "abort_empty"
        /\ dbLog = << >>
        /\ NoArtifacts
        /\ conn = IF skip_db THEN "none" ELSE "closed"

\* both generations answered with nothing usable while a connection was open
C7_Witness ==
    /\ pc = "abort_empty"
    /\ generated
    /\ aiCalls = 2
    /\ ~skip_db
    /\ conn = "closed"

\* C8 as stated: once an error occurred while the setup batch was executed or
\* committed, no query statement is executed and no artifact is produced.
C8_AsStated ==
    SetupBatchErrorSeen => (NoQueryExecuted /\ NoArtifacts)

\* C8, amended: an exception that reaches the handler of the execution stage
\* (a failing commit; a failing setup statement never does) aborts the run:
\* no query statement is executed afterwards, no artifact is produced, and
\* the connection is closed.
C8_EscapingErrorAborts ==
    /\ CommitFailed =>
         /\ pc = "abort_exec"
         /\ dbLog[Len(dbLog)].op = "commit"
         /\ NoQueryExecuted
         /\ NoArtifacts
         /\ conn = "closed"
    /\ pc = "abort_exec" =>
         /\ NoArtifacts
         /\ conn = "closed"
         /\ \/ CommitFailed
            \/ query_items[idx].sql = Absent

\* the commit failed after a setup statement ran, with queries waiting
C8_Witness ==
    /\ pc = "abort_exec"
    /\ CommitFailed
    /\ Len(setup_items) = 2
    /\ Len(query_items) > 0
    /\ \E j \in 1..Len(dbLog) : IsExec(dbLog[j], "setup") /\ dbLog[j].failed

\* the statements sent to the database, in order
ExecsDone ==
    LET e == SelectSeq(dbLog, LAMBDA x : x.op = "exec")
    IN [j \in 1..Len(e) |-> << e[j].batch, e[j].i, e[j].sql >>]

\* every setup statement, then every query statement, in list order
ExecsExpected ==
    [j \in 1..Len(setup_items) |-> << "setup", j, setup_items[j].sql >>]
    \o [j \in 1..Len(query_items) |-> << "queries", j, query_items[j].sql >>]

ItemOf(e) == IF e.batch = "setup" THEN setup_items[e.i] ELSE query_items[e.i]

\* the execution stage ran to its end
BatchesCompleted ==
    /\ dbLog # << >>
    /\ pc \in { "mkdir", "screens", "docx", "pdf", "done", "raised" }

\* C9: a failing statement does not abort its batch: every setup statement and
\* every query statement is executed exactly once in list order even when
\* earlier ones failed, and the result of a failed statement is an error
\* marker (text starting with "ERROR"), no exception being propagated.
C9_StatementFailureIsCaptured ==
    /\ Len(ExecsDone) <= Len(ExecsExpected)
    /\ ExecsDone = SubSeq(ExecsExpected, 1, Len(ExecsDone))
    /\ BatchesCompleted => ExecsDone = ExecsExpected
    /\ (\E j \in 1..Len(dbLog) : dbLog[j].op = "commit") =>
          \A i \in 1..Len(setup_items) : << "setup", i, setup_items[i].sql >> = ExecsDone[i]
    /\ \A j \in 1..Len(dbLog) :
          dbLog[j].op = "exec" =>
             /\ ItemOf(dbLog[j]).result # Absent
             /\ dbLog[j].failed <=> ItemOf(dbLog[j]).result[1] = "ERROR"

\* the first statement of each batch failed and both batches ran to the end
C9_Witness ==
    /\ pc = "done"
    /\ Len(setup_items) = 2
    /\ Len(query_items) = 2
    /\ setup_items[1].result[1] = "ERROR"
    /\ query_items[1].result[1] = "ERROR"
    /\ setup_items[2].result[1] # "ERROR"
    /\ query_items[2].result[1] # "ERROR"
    /\ Len(ExecsDone) = 4

\* C10: two batches, the setup batch committed before queries run: no query
\* statement is executed before every setup statement was executed and the
\* commit was issued, and table cleanup precedes the first setup statement.
C10_SetupCommittedBeforeQueries ==
    /\ dbLog # << >> => dbLog[1].op = "cleanup"
    /\ \A j \in 1..Len(dbLog) :
          IsExec(dbLog[j], "setup") =>
             \E c \in 1..(j - 1) : dbLog[c].op = "cleanup"
    /\ \A j \in 1..Len(dbLog) :
          IsExec(dbLog[j], "queries") =>
             \E c \in 1..(j - 1) :
                /\ dbLog[c].op = "commit"
                /\ ~dbLog[c].failed
                /\ \A i \in 1..Len(setup_items) :
                      \E k \in 1..(c - 1) : IsExec(dbLog[k], "setup") /\ dbLog[k].i = i
                /\ \A k \in (c + 1)..Len(dbLog) : ~IsExec(dbLog[k], "setup")

\* cleanup, two setup statements, the commit, then a query
C10_Witness ==
    /\ Len(dbLog) >= 5
    /\ dbLog[1].op = "cleanup"
    /\ IsExec(dbLog[2], "setup")
    /\ IsExec(dbLog[3], "setup")
    /\ dbLog[4].op = "commit"
    /\ IsExec(dbLog[5], "queries")

\* C11: generate_all uses the AI generation step exactly twice per successful
\* run, setup generation strictly before query generation; query generation
\* is given the list setup generation returned and builds its schema context
\* from it; and if setup generation raises, query generation never starts.
C11_TwoGenerationsSetupFirst ==
    /\ Len(genLog) <= 2
    /\ aiCalls <= 2
    /\ Len(genLog) >= 1 => genLog[1].step = "setup" /\ genLog[1].given = << >>
    /\ Len(genLog) = 2 =>
          /\ genLog[2].step = "queries"
          /\ genLog[1].outcome = "response"
          /\ genLog[1].raised = "none"
          /\ genLog[2].given = genLog[1].returned
          /\ genLog[2].raised # "KeyError" =>
                genLog[2].context = CreateStmts(genLog[1].returned)
    /\ generated =>
          /\ aiCalls = 2
          /\ Len(genLog) = 2
          /\ genLog[2].outcome = "response"
          /\ genLog[2].raised = "none"
    /\ (Len(genLog) >= 1 /\ genLog[1].raised # "none") =>
          /\ Len(genLog) = 1
          /\ pc = "raised"
          /\ ~generated

\* a successful generation whose query half was given two setup items, one
\* of them a create statement
C11_Witness ==
    /\ generated
    /\ Len(genLog) = 2
    /\ Len(genLog[2].given) = 2
    /\ Len(genLog[2].context) = 1

\* C12: once the batch-execution stage has been entered the connection is
\* released on every exit path: process_exercise never ends, by error abort,
\* by normal completion or by an exception of a later stage, with the
\* connection still open.
C12_ConnectionReleasedOnEveryExit ==
    (dbLog # << >> /\ pc \in { "done", "abort_exec", "raised" }) => conn = "closed"

\* C13: when _call_with_retry ends in exhaustion, the one aggregate error
\* leaves process_exercise and the run of that exercise is aborted: no SQL is
\* executed and no artifact is produced.
AiExhausted == \E j \in 1..Len(genLog) : genLog[j].outcome = "Exception"

C13_ExhaustionAbortsExercise ==
    AiExhausted =>
        /\ pc = "raised"
        /\ peRaised = "Exception"
        /\ ~generated
        /\ dbLog = << >>
        /\ NoArtifacts

\* query generation ended in exhaustion after setup generation had returned
\* statements
C13_Witness ==
    /\ Len(genLog) = 2
    /\ genLog[2].outcome = "Exception"
    /\ genLog[1].returned # << >>
    /\ pc = "raised"

AnyPartParses(t) ==
    \E i \in 1..Len(t) : \E j \in i..Len(t) : JsonLoads(SubSeq(t, i, j)).ok

\* C14: _parse_json_response never raises: for every text it returns a
\* sequence, and the empty sequence when nothing of the text can be parsed.
C14_ParseNeverRaises ==
    fpc = "parsed" =>
        /\ parse_result.raised = "none"
        /\ DOMAIN parse_result.value = 1..Len(parse_result.value)
        /\ ~AnyPartParses(text) => parse_result.value = << >>

\* the bracketed part was found and did not parse either
C14_Witness ==
    /\ fpc = "parsed"
    /\ ~JsonLoads(Unfenced(text)).ok
    /\ SearchBracketed(Unfenced(text)).found
    /\ ~JsonLoads(SearchBracketed(Unfenced(text)).group).ok
    /\ parse_result.value = << >>

\* the position of the "]" closing a "[" whose inside starts at j, 0 if none
RECURSIVE MatchClose(_, _, _)
MatchClose(t, j, depth) ==
    IF j > Len(t) THEN 0
    ELSE IF t[j] = "[" THEN MatchClose(t, j + 1, depth + 1)
    ELSE IF t[j] = "]"
    THEN IF depth = 1 THEN j ELSE MatchClose(t, j + 1, depth - 1)
    ELSE MatchClose(t, j + 1, depth)

\* the first balanced [...] part of the text
FirstBalanced(t) ==
    LET starts == { i \in 1..Len(t) : t[i] = "[" /\ MatchClose(t, i + 1, 1) # 0 }
        first == CHOOSE i \in starts : \A j \in starts : i <= j
    IN IF starts = {} THEN [found |-> FALSE, group |-> << >>]
       ELSE [found |-> TRUE, group |-> SubSeq(t, first, MatchClose(t, first + 1, 1))]

\* C15 as stated: when the whole text does not parse, the result is the
\* parse of the first balanced [...] part of the text.
C15_FirstBalancedArrayReturned ==
    (/\ fpc = "parsed"
     /\ parse_result.raised = "none"
     /\ ~JsonLoads(Unfenced(text)).ok
     /\ FirstBalanced(Unfenced(text)).found)
    => parse_result.value = JsonLoads(FirstBalanced(Unfenced(text)).group).value

\* C15: when the whole text does not parse (JSONDecodeError), the part from
\* the first "[" to the last "]" of the text is parsed and its elements are
\* returned; if there is no such part, or its parse raises JSONDecodeError,
\* the result is the empty sequence; any other error of that parse leaves
\* the function.
C15_OutermostBracketsParsed ==
    (fpc = "parsed" /\ JsonLoads(Unfenced(text)).error = "JSONDecodeError") =>
        LET t == Unfenced(text)
            opens == { i \in 1..Len(t) : t[i] \in OpenTokens }
            closes == { i \in 1..Len(t) : t[i] = "]" }
            spans == { << i, j >> \in opens \X closes :
                         /\ i < j
                         /\ \A k \in opens : i <= k
                         /\ \A k \in closes : k <= j }
        IN  /\ spans = {} => parse_result = [raised |-> "none", value |-> << >>]
            /\ \A sp \in spans :
                  LET r2 == JsonLoads(SubSeq(t, sp[1], sp[2]))
                  IN IF r2.ok \/ r2.error = "JSONDecodeError"
                     THEN parse_result = [raised |-> "none", value |-> r2.value]
                     ELSE parse_result = [raised |-> r2.error, value |-> << >>]

\* prose around one array: the array is returned
C15_Witness ==
    /\ fpc = "parsed"
    /\ Len(text) >= 5
    /\ text[1] = Prose
    /\ text[Len(text)] = Prose
    /\ ~JsonLoads(Unfenced(text)).ok
    /\ Len(parse_result.value) >= 1

\* a dict
IsRecord(v) == "q" \in DOMAIN v

\* C16: a response that is a single JSON object becomes the one-element
\* sequence of that object, an array response becomes the sequence of its
\* elements, and the result is always a sequence of records.
C16_ResultIsSequenceOfRecords ==
    fpc = "parsed" =>
        LET t == Unfenced(text) IN
        /\ (Len(t) = 1 /\ t[1] \in ObjTokens) => parse_result.value = << ObjectOf(t[1]) >>
        /\ t \in Arrays =>
              parse_result.value = [ i \in 1..((Len(t) - 1) \div 2) |-> JsonValueOf(t[2 * i]) ]
        /\ \A i \in 1..Len(parse_result.value) : IsRecord(parse_result.value[i])

\* the text is a valid JSON array between an opening fence, with or without
\* a language tag, and a closing fence; body is the array
FencedArray(t) ==
    LET s == StripTokens(t)
        inner == IF Len(s) >= 2 THEN SubSeq(s, 2, Len(s) - 1) ELSE << >>
        tagLen == IF Len(inner) >= 2 /\ inner[1] = LangTag /\ inner[2] = Punct THEN 2
                  ELSE IF Len(inner) >= 1 /\ inner[1] = LangTag THEN 1
                  ELSE 0
        body == StripTokens(SubSeq(inner, tagLen + 1, Len(inner)))
    IN [ is |-> /\ Len(s) >= 2
                /\ s[1] = Fence
                /\ s[Len(s)] = Fence
                /\ JsonLoads(body).ok
                /\ JsonLoads(body).isList,
         body |-> body ]

\* C17: for a valid JSON array between an opening fence (with or without a
\* language tag) and a closing fence, white space around them or not, the
\* fences are stripped and exactly the elements of the array are returned,
\* the same as for the array without the fences.
C17_FencedArrayParsed ==
    (fpc = "parsed" /\ FencedArray(text).is) =>
        /\ parse_result.raised = "none"
        /\ parse_result.value = JsonLoads(FencedArray(text).body).value
        /\ parse_result = ParseOutcome(FencedArray(text).body)

\* a fenced array of two elements after a language tag, all on one line
C17_Witness ==
    /\ fpc = "parsed"
    /\ FencedArray(text).is
    /\ Len(text) >= 3
    /\ text[1] = Fence
    /\ text[2] = LangTag
    /\ text[3] = Space
    /\ Newline \notin { text[i] : i \in 1..Len(text) }
    /\ Len(parse_result.value) = 2

(***************************************************************************)
(* Claims about extract_practice_section (checked under SpecExtract).      *)
(***************************************************************************)
\* the positions of the text where some marker pattern matches
MarkerStarts(t) ==
    { i \in 1..Len(t) : \E k \in 1..Len(PracticeMarkers) : MarkerAt(PracticeMarkers[k], t, i) }

\* C18: extract_practice_section never fails, and when no marker pattern
\* occurs in the input it returns the whole input unchanged: nothing is
\* trimmed and no header is removed.
C18_NoMarkerReturnsInput ==
    fpc = "extracted" =>
        /\ practice_text.raised = "none"
        /\ MarkerStarts(full_text) = {} => practice_text.value = full_text

\* a text without marker that starts with white space and holds the header
C18_Witness ==
    /\ fpc = "extracted"
    /\ MarkerStarts(full_text) = {}
    /\ Len(full_text) >= 2
    /\ full_text[1] \in WhiteTokens
    /\ \E i \in 1..Len(full_text) : full_text[i] = Header
    /\ practice_text.value = full_text

\* C19 as stated: when markers occur, the result is the substring from the
\* earliest occurrence of any marker to the end of the text.
C19_SubstringFromEarliestMarker ==
    (fpc = "extracted" /\ MarkerStarts(full_text) # {}) =>
        \E e \in MarkerStarts(full_text) :
            /\ \A i \in MarkerStarts(full_text) : e <= i
            /\ practice_text.value = SubSeq(full_text, e, Len(full_text))

\* C19: when markers occur, in whatever case, the result is the substring
\* from the earliest occurrence of any marker, whichever pattern it belongs
\* to, to the end of the text, with the boilerplate headers removed from it
\* and the white space at its ends stripped.
C19_CleanedSubstringFromEarliestMarker ==
    (fpc = "extracted" /\ MarkerStarts(full_text) # {}) =>
        \E e \in MarkerStarts(full_text) :
            /\ \A i \in MarkerStarts(full_text) : e <= i
            /\ practice_text.value =
                  StripTokens(RemoveHeaders(SubSeq(full_text, e, Len(full_text))))

\* the pattern listed last matches before a pattern listed first, and other
\* text precedes both
C19_Witness ==
    /\ fpc = "extracted"
    /\ SearchMarker("EXERCISE", full_text) > 1
    /\ SearchMarker("DATABASE", full_text) > SearchMarker("EXERCISE", full_text)
    /\ Len(practice_text.value) >= 1
    /\ FoldCase(practice_text.value[1]) = "EXERCISE"

(***************************************************************************)
(* Termination of _call_with_retry (checked under SpecRetryFair).          *)
(***************************************************************************)
\* the invocation has ended
RetryEnded == rpc \in { "returned", "raised" }

\* never more external calls than credentials x models x retries; an ended
\* invocation has returned a response or, having had a credential to loop
\* over, raised the exhaustion error
RetryBounded ==
    /\ nCalls <= Len(api_keys) * NumModels * max_retries_per_model
    /\ rpc = "returned" => response # NoResponse /\ raised = NoException
    /\ (rpc = "raised" /\ Len(api_keys) > 0) =>
          /\ raised = ExhaustedError(last_error)
          /\ response = NoResponse

\* C21: retrying is bounded: every invocation of _call_with_retry ends,
\* returning a response or raising the exhaustion error, after at most
\* (credentials) x (models) x max_retries_per_model external calls, whatever
\* the outcomes of the calls.
C21_RetryTerminatesWithinBound == []RetryBounded /\ <>RetryEnded

\* exhaustion after the largest number of calls: every call a rate signal
C21_Witness ==
    /\ rpc = "raised"
    /\ raised.type = "Exception"
    /\ Len(api_keys) = 2
    /\ max_retries_per_model = 2
    /\ nCalls = 2 * NumModels * 2

(***************************************************************************)
(* The --skip-db run and the artifact stage of process_exercise (checked   *)
(* under Spec).                                                            *)
(***************************************************************************)

ArtifactStages == { "mkdir", "screens", "docx", "pdf", "done" }

DatabaseStages ==
    { "cleanup", "setup", "commit", "queries", "abort_connect", "abort_exec" }

AllPlaceholders(items) ==
    \A i \in 1..Len(items) : items[i].result = SkippedResult

\* C22: with the skip-execution flag set no connection is ever attempted and
\* no statement is ever executed; once the skip branch has run every setup
\* item and every query item holds the placeholder "(DB execution skipped)",
\* and the run goes on to the artifacts: the screenshots show the
\* placeholder, and a run that ends normally has rendered one screenshot per
\* query and written the document.
C22_SkipFlagSkipsDatabaseOnly ==
    skip_db =>
        /\ conn = "none"
        /\ ~connectFailed
        /\ dbLog = << >>
        /\ pc \notin DatabaseStages
        /\ pc \in ArtifactStages =>
              /\ AllPlaceholders(setup_items)
              /\ AllPlaceholders(query_items)
        /\ AllPlaceholders(screenshots)
        /\ pc \in { "docx", "pdf", "done" } =>
              Len(screenshots) = Len(query_items)
        /\ pc \in { "pdf", "done" } => docx

\* a skip run with setup and query items that ended with all its artifacts
C22_Witness ==
    /\ skip_db
    /\ pc = "done"
    /\ Len(setup_items) = 2
    /\ Len(query_items) = 2
    /\ Len(screenshots) = 2
    /\ docx
    /\ pdf

AllHaveResult(items) ==
    \A i \in 1..Len(items) : items[i].result # Absent

\* C23: whenever the run is in the artifact stage every setup item and every
\* query item has a result; the screenshots rendered so far are those of the
\* first query items, in query order, each showing the statement and the
\* result of its query item, and once the screenshot loop is over there is
\* exactly one per query item: none belongs to a setup item.
C23_ResultsAndOneScreenshotPerQuery ==
    pc \in ArtifactStages =>
        /\ AllHaveResult(setup_items)
        /\ AllHaveResult(query_items)
        /\ Len(screenshots) <= Len(query_items)
        /\ \A i \in 1..Len(screenshots) :
              /\ screenshots[i].i = i
              /\ screenshots[i].sql = query_items[i].sql
              /\ screenshots[i].result = query_items[i].result
        /\ pc = "mkdir" => screenshots = << >>
        /\ pc = "screens" => Len(screenshots) = idx - 1
        /\ pc \in { "docx", "pdf", "done" } =>
              Len(screenshots) = Len(query_items)

\* an executed run with two setup items and two query items, one of them
\* failed, after the screenshot loop
C23_Witness ==
    /\ ~skip_db
    /\ pc = "docx"
    /\ Len(setup_items) = 2
    /\ Len(query_items) = 2
    /\ Len(screenshots) = 2
    /\ query_items[2].result[1] = "ERROR"
    /\ screenshots[2].result[1] = "ERROR"

(***************************************************************************)
(* main, from the search for the exercise files on (automatic_ass.py       *)
(* 612-653), and find_exercise_pdfs.  A file name is a sequence of         *)
(* characters; process_exercise is seen by how one call of it ends.        *)
(***************************************************************************)

MaxFiles == 3

\* the value int() gives each decimal digit
DigitValue ==
    ("0" :> 0) @@ ("1" :> 1) @@ ("2" :> 2) @@ ("3" :> 3) @@ ("4" :> 4) @@
    ("5" :> 5) @@ ("6" :> 6) @@ ("7" :> 7) @@ ("8" :> 8) @@ ("9" :> 9)

\* int(s) for a string of decimal digits
RECURSIVE ToInt(_)
ToInt(ds) ==
    IF ds = << >>
    THEN 0
    ELSE 10 * ToInt(SubSeq(ds, 1, Len(ds) - 1)) + DigitValue[ds[Len(ds)]]

\* the names a directory may hold:  Ex 2. A.pdf  Ex10-B.pdf  ex 4. C.PDF
\* EX4.D.pdf  Extra.pdf  24_ex4.pdf (a student's output)  Ex 3.docx
FileNames ==
    { << "E", "x", " ", "2", ".", " ", "A", ".", "p", "d", "f" >>,
      << "E", "x", "1", "0", "-", "B", ".", "p", "d", "f" >>,
      << "e", "x", " ", "4", ".", " ", "C", ".", "P", "D", "F" >>,
      << "E", "X", "4", ".", "D", ".", "p", "d", "f" >>,
      << "E", "x", "t", "r", "a", ".", "p", "d", "f" >>,
      << "2", "4", "_", "e", "x", "4", ".", "p", "d", "f" >>,
      << "E", "x", " ", "3", ".", "d", "o", "c", "x" >> }

\* file.lower().endswith('.pdf') and file.lower().startswith('ex')
IsExercisePdf(file) ==
    LET lowered == Lower(file)
        n == Len(lowered)
    IN /\ n >= 4
       /\ SubSeq(lowered, n - 3, n) = << ".", "p", "d", "f" >>
       /\ StartsWith(lowered, << "e", "x" >>)

\* extract_num: re.search(r'(\d+)', fname) on the base name of the path, the
\* leftmost run of digits as an integer, 0 when the name holds no digit
ExtractNum(path) ==
    LET fname == path.name
        IsDigit(k) == fname[k] \in DOMAIN DigitValue
        starts == { k \in 1..Len(fname) : IsDigit(k) }
    IN IF starts = {}
       THEN 0
       ELSE LET b == CHOOSE k \in starts : \A q \in starts : k <= q
                e == CHOOSE k \in b..Len(fname) :
                        /\ \A q \in b..k : IsDigit(q)
                        /\ k = Len(fname) \/ ~IsDigit(k + 1)
            IN ToInt(SubSeq(fname, b, e))

SortByExtractNumMutUnsorted(pdfs) == pdfs

\* list.sort(key=extract_num) is stable: the last path goes behind the paths
\* before it whose number is not larger
RECURSIVE SortByExtractNum(_)
SortByExtractNum(pdfs) ==
    IF pdfs = << >>
    THEN << >>
    ELSE LET sorted == SortByExtractNum(SubSeq(pdfs, 1, Len(pdfs) - 1))
             path == pdfs[Len(pdfs)]
             n == Cardinality({ k \in 1..Len(sorted) :
                                  ExtractNum(sorted[k]) <= ExtractNum(path) })
         IN SubSeq(sorted, 1, n) \o << path >> \o SubSeq(sorted, n + 1, Len(sorted))

\* a path is os.path.join(directory, file): its directory and its base name
FindExercisePdfs(directory, files) ==
    LET kept == SelectSeq(files, IsExercisePdf)
        pdfs == [k \in 1..Len(kept) |-> [dir |-> directory, name |-> kept[k]]]
    IN SortByExtractNum(pdfs)

\* re.search(rf'Ex\s*{target_num}[\.\s\-]', fname, re.IGNORECASE) for a
\* target that is a string of digits
SearchTarget(target_num, fname) ==
    \E i \in 1..(Len(fname) - 1) :
       /\ fname[i] \in { "E", "e" }
       /\ fname[i + 1] \in { "X", "x" }
       /\ LET IsSpace(k) == fname[k] \in { " ", "\t", "\n" }
              j == CHOOSE k \in (i + 2)..(Len(fname) + 1) :
                      /\ \A q \in (i + 2)..(k - 1) : IsSpace(q)
                      /\ k > Len(fname) \/ ~IsSpace(k)
              e == j + Len(target_num)
          IN /\ e <= Len(fname)
             /\ SubSeq(fname, j, e - 1) = target_num
             /\ fname[e] \in { ".", "-", " ", "\t", "\n" }

\* pdfs_to_process: all of them when args.exercise.lower() is 'all', else
\* those whose base name matches the target
SelectPdfs(arg, pdfs) ==
    IF Lower(arg) = << "a", "l", "l" >>
    THEN pdfs
    ELSE SelectSeq(pdfs, LAMBDA p : SearchTarget(arg, p.name))

\* the exercise number parse_exercise_metadata reads off the file name:
\* re.match(r'Ex\s*(\d+)[\.\s\-]+(.+?)\.pdf', filename, re.IGNORECASE);
\* << >> when the name does not match
NumberInName(filename) ==
    LET n == Len(filename)
        IsSpace(k) == filename[k] \in { " ", "\t", "\n" }
        IsDigit(k) == filename[k] \in DOMAIN DigitValue
    IN IF ~(n >= 2 /\ Lower(SubSeq(filename, 1, 2)) = << "e", "x" >>)
       THEN << >>
       ELSE LET b == CHOOSE k \in 3..(n + 1) :
                        /\ \A q \in 3..(k - 1) : IsSpace(q)
                        /\ k > n \/ ~IsSpace(k)
                e == CHOOSE k \in b..(n + 1) :
                        /\ \A q \in b..(k - 1) : IsDigit(q)
                        /\ k > n \/ ~IsDigit(k)
            IN IF /\ e > b
                  /\ e <= n
                  /\ filename[e] \in { ".", "-", " ", "\t", "\n" }
                  /\ \E k \in (e + 2)..(n - 3) :
                        Lower(SubSeq(filename, k, k + 3)) = << ".", "p", "d", "f" >>
               THEN SubSeq(filename, b, e - 1)
               ELSE << >>

\* args.exercise is 'all' in some case, or an exercise number; os.listdir
\* gives the names of the directory, each once, in arbitrary order
InitMain ==
    /\ RetryIdle
    /\ ExerciseIdle
    /\ TextIdle
    /\ mpc = "find"
    /\ exercise \in { << "a", "l", "l" >>, << "A", "l", "l" >>, << "4" >>,
                      << "1", "0" >>, << "1" >> }
    /\ listing \in { l \in UNION { [1..k -> FileNames] : k \in 0..MaxFiles } :
                       \A i, j \in 1..Len(l) : i # j => l[i] # l[j] }
    /\ all_pdfs = << >>
    /\ pdfs_to_process = << >>
    /\ pos = 1
    /\ processed = << >>

\* all_pdfs = find_exercise_pdfs(args.input_dir); if not all_pdfs: return
M_FindExercisePdfs ==
    /\ mpc = "find"
    /\ all_pdfs' = FindExercisePdfs("input_dir", listing)
    /\ mpc' = IF all_pdfs' = << >> THEN "no_pdfs" ELSE "select"
    /\ UNCHANGED << retryVars, peVars, textVars, exercise, listing, pdfs_to_process, pos,
                    processed >>

\* the choice of pdfs_to_process; if not pdfs_to_process: return
M_SelectPdfs ==
    /\ mpc = "select"
    /\ pdfs_to_process' = SelectPdfs(exercise, all_pdfs)
    /\ mpc' = IF pdfs_to_process' = << >> THEN "not_found" ELSE "loop"
    /\ pos' = 1
    /\ UNCHANGED << retryVars, peVars, textVars, exercise, listing, all_pdfs, processed >>

\* one iteration of  for pdf_path in pdfs_to_process: try: process_exercise
\* (...) except Exception: ... continue.  The call returns, or an exception
\* leaves it; the classes named are those  except Exception  catches.
M_ProcessExercise(outcome) ==
    /\ mpc = "loop"
    /\ pos <= Len(pdfs_to_process)
    /\ processed' = Append(processed,
                           [pdf_path |-> pdfs_to_process[pos], outcome |-> outcome])
    /\ IF \/ outcome = "returned"
          \/ outcome \in { "Exception", "ValueError", "KeyError", "TypeError", "OSError",
                           "RecursionError" }
       THEN /\ pos' = pos + 1
            /\ mpc' = "loop"
       ELSE /\ mpc' = "propagated"
            /\ UNCHANGED pos
    /\ UNCHANGED << retryVars, peVars, textVars, exercise, listing, all_pdfs,
                    pdfs_to_process >>

\* the loop is over: print("[+] All done!")
M_AllDone ==
    /\ mpc = "loop"
    /\ pos > Len(pdfs_to_process)
    /\ mpc' = "done"
    /\ UNCHANGED << retryVars, peVars, textVars, exercise, listing, all_pdfs,
                    pdfs_to_process, pos, processed >>

\* process_exercise returns (done or given up) or ends with an exception: the
\* exhaustion error of the AI step, a file error
NextMain ==
    \/ M_FindExercisePdfs
    \/ M_SelectPdfs
    \/ \E outcome \in { "returned", "Exception", "OSError" } : M_ProcessExercise(outcome)
    \/ M_AllDone

SpecMain == InitMain /\ [][NextMain]_vars

(***************************************************************************)
(* The order and the isolation of the exercises main processes (checked    *)
(* under SpecMain).                                                        *)
(***************************************************************************)

\* the listed files main is to process, as a set
ExpectedSelection ==
    LET all == Lower(exercise) = << "a", "l", "l" >>
    IN { [dir |-> "input_dir", name |-> listing[k]] :
           k \in { i \in 1..Len(listing) :
                     /\ IsExercisePdf(listing[i])
                     /\ all \/ SearchTarget(exercise, listing[i]) } }

\* C24: the selected exercises are processed one at a time in ascending order
\* of the exercise number in the file name (the number parse_exercise_metadata
\* reads off the name is the one sorted by), none is left out or taken twice,
\* and an exception of one process_exercise call is caught: the loop goes on
\* and ends only when every selected exercise was processed.
C24_AscendingOrderAndIsolation ==
    /\ mpc \in { "loop", "done" } =>
          /\ LET num == [i \in 1..Len(pdfs_to_process) |-> ExtractNum(pdfs_to_process[i])]
                 name == [i \in 1..Len(pdfs_to_process) |->
                            NumberInName(pdfs_to_process[i].name)]
             IN /\ \A i, j \in 1..Len(pdfs_to_process) : i < j => num[i] <= num[j]
                /\ \A i \in 1..Len(pdfs_to_process) :
                      name[i] # << >> => ToInt(name[i]) = num[i]
          /\ { pdfs_to_process[i] : i \in 1..Len(pdfs_to_process) } = ExpectedSelection
          /\ Len(pdfs_to_process) = Cardinality(ExpectedSelection)
          /\ Len(processed) = pos - 1
          /\ \A i \in 1..Len(processed) : processed[i].pdf_path = pdfs_to_process[i]
    /\ mpc = "done" => Len(processed) = Len(pdfs_to_process)
    /\ mpc # "propagated"

\* exercises 10, 4 and 2, listed in that order, were processed as 2, 4, 10,
\* the first of them ending with the exhaustion error
C24_Witness ==
    /\ mpc = "done"
    /\ Len(listing) = 3
    /\ Len(processed) = 3
    /\ processed[1].pdf_path.name = listing[3]
    /\ processed[2].pdf_path.name = listing[2]
    /\ processed[3].pdf_path.name = listing[1]
    /\ ExtractNum(processed[1].pdf_path) = 2
    /\ ExtractNum(processed[2].pdf_path) = 4
    /\ ExtractNum(processed[3].pdf_path) = 10
    /\ processed[1].outcome = "Exception"
    /\ processed[3].outcome = "returned"

====
